---- MODULE Spec2Model ----
(***************************************************************************)
(* Model of the Pokemon page cleaning / linearizing pipeline of            *)
(* write_pdf.py (PokemonHTMLCleaner, HTMLTableToReportLabTable,            *)
(* PokemonHTMLToReportLab, PokemonPDFGenerator) and of the older           *)
(* crawler.py variant of the cleaning passes.                              *)
(*                                                                         *)
(* The BeautifulSoup tree is an arena: a function from node ids 0..n to    *)
(* node records.  Node 0 is the BeautifulSoup object itself.  A text node  *)
(* (NavigableString) has name "None" and carries its string as a sequence  *)
(* of atomic text pieces; " " is a whitespace-only piece.  The pieces are  *)
(* chosen so that no concatenation of two pieces equals a third one.       *)
(***************************************************************************)
EXTENDS Integers, Sequences, FiniteSets, TLC

\* ------------------------------------------------------------------ bounds
MaxNodes == 4        \* nodes below the BeautifulSoup object in an input tree
MaxDeepNodes == 6    \* the same, for the narrow families of nested tables
MaxRuns == 2         \* consecutive runs of one cleaning pass on one tree

\* --------------------------------------------------------------- constants
None == -1           \* Python's None, where a node is expected
Root == 0            \* the BeautifulSoup object
WS == " "            \* a whitespace-only piece of text

HEADERS_TO_REMOVE ==
    \* "No" stands for the numero sign of the source
    { <<"National No">>, <<"Height">>, <<"Species">>, <<"Local No">> }

headers_to_remove == HEADERS_TO_REMOVE

\* str.lower() on one piece of text
Lower(s) ==
    CASE s = "Moves learnt by" -> "moves learnt by"
      [] s = "Changes" -> "changes"
      [] s = "/TM" -> "/tm"
      [] OTHER -> s

\* -------------------------------------------------------------- tree model
NoAttr == ""         \* an attribute that is not set

Tag(nm) == [name |-> nm, kids |-> <<>>, str |-> <<>>, cls |-> <<>>,
            id |-> NoAttr, title |-> NoAttr, href |-> NoAttr, src |-> NoAttr,
            dead |-> FALSE]

NavigableString(s) == [Tag("None") EXCEPT !.str = s]

\* what is left of a node after decompose(): __dict__ cleared, contents = []
Decomposed == [Tag("None") EXCEPT !.dead = TRUE]

IsTag(t, x) == t[x].name # "None"
IsString(t, x) == t[x].name = "None" /\ ~t[x].dead

Range(s) == { s[i] : i \in 1..Len(s) }

Index(s, x) == CHOOSE i \in 1..Len(s) : s[i] = x

\* element.parent
Parent(t, x) ==
    IF \E y \in DOMAIN t : x \in Range(t[y].kids)
    THEN CHOOSE y \in DOMAIN t : x \in Range(t[y].kids)
    ELSE None

RECURSIVE Descendants(_, _), DescendantsFrom(_, _, _)
\* element.descendants: the nodes below x in document order
Descendants(t, x) == DescendantsFrom(t, t[x].kids, 1)

DescendantsFrom(t, ks, i) ==
    IF i > Len(ks) THEN <<>>
    ELSE <<ks[i]>> \o Descendants(t, ks[i]) \o DescendantsFrom(t, ks, i + 1)

RECURSIVE Parents(_, _)
\* element.parents: nearest first
Parents(t, x) ==
    LET p == Parent(t, x) IN IF p = None THEN <<>> ELSE <<p>> \o Parents(t, p)

\* the nodes of the document, the BeautifulSoup object excluded
Nodes(t) == Descendants(t, Root)

InTree(t, x) == x \in Range(Nodes(t))

RECURSIVE Filter(_, _, _)
Filter(t, s, names) ==
    IF s = <<>> THEN <<>>
    ELSE (IF t[Head(s)].name \in names THEN <<Head(s)>> ELSE <<>>)
         \o Filter(t, Tail(s), names)

\* element.find_all(names): a list made before the caller's loop starts
find_all(t, x, names) == Filter(t, Descendants(t, x), names)

\* element.find(names)
find(t, x, names) ==
    LET r == find_all(t, x, names) IN IF r = <<>> THEN None ELSE r[1]

\* element.find_parent(names)
find_parent(t, x, names) ==
    LET r == Filter(t, Parents(t, x), names) IN IF r = <<>> THEN None ELSE r[1]

\* element.find_next_sibling(): the next sibling that is a Tag
find_next_sibling(t, x) ==
    LET p == Parent(t, x) IN
    IF p = None THEN None
    ELSE LET ks == t[p].kids
             i == Index(ks, x)
             later == { j \in (i + 1)..Len(ks) : IsTag(t, ks[j]) }
         IN IF later = {} THEN None
            ELSE ks[CHOOSE j \in later : \A k \in later : j <= k]

\* str.strip() on a string of pieces
RECURSIVE LStrip(_)
LStrip(s) == IF s # <<>> /\ Head(s) = WS THEN LStrip(Tail(s)) ELSE s

RECURSIVE RStrip(_)
RStrip(s) ==
    IF s # <<>> /\ s[Len(s)] = WS THEN RStrip(SubSeq(s, 1, Len(s) - 1)) ELSE s

Strip(s) == RStrip(LStrip(s))

RECURSIVE JoinStrings(_, _, _)
JoinStrings(t, s, strip) ==
    IF s = <<>> THEN <<>>
    ELSE (IF IsString(t, Head(s))
          THEN (IF strip THEN Strip(t[Head(s)].str) ELSE t[Head(s)].str)
          ELSE <<>>)
         \o JoinStrings(t, Tail(s), strip)

\* element.get_text(strip=...): the strings below x, each stripped, joined
get_text(t, x, strip) == JoinStrings(t, Descendants(t, x), strip)

RECURSIVE LowerAll(_)
LowerAll(s) == IF s = <<>> THEN <<>> ELSE <<Lower(Head(s))>> \o LowerAll(Tail(s))

Without(s, x) == SelectSeq(s, LAMBDA y : y # x)

\* element.extract(): x leaves its parent's contents and keeps its own
extract(t, x) ==
    LET p == Parent(t, x) IN
    IF p = None THEN t ELSE [t EXCEPT ![p].kids = Without(@, x)]

\* element.decompose(): extract, then destroy x and everything below it
decompose(t, x) ==
    LET gone == {x} \cup Range(Descendants(t, x))
        t1 == extract(t, x)
    IN [y \in DOMAIN t1 |-> IF y \in gone THEN Decomposed ELSE t1[y]]

NewId(t) == Cardinality(DOMAIN t)

\* a replacement that is appended to the parent's contents instead
ReplaceAtEnd(t, x, node) ==
    LET p == Parent(t, x)
        n == NewId(t)
    IN [y \in DOMAIN t \cup {n} |->
          IF y = n THEN node
          ELSE IF y = p THEN [t[y] EXCEPT !.kids = Append(Without(@, x), n)]
               ELSE t[y]]

\* element.replace_with(node): a new node takes x's place in its parent
replace_with(t, x, node) ==
    LET p == Parent(t, x)
        n == NewId(t)
    IN [y \in DOMAIN t \cup {n} |->
          IF y = n THEN node
          ELSE IF y = p
               THEN [t[y] EXCEPT !.kids = [i \in 1..Len(@) |-> IF @[i] = x THEN n ELSE @[i]]]
               ELSE t[y]]

\* ------------------------------------------------------------ input trees
\* parent maps of the ordered trees of n nodes numbered in document order
Shapes(n) ==
    { p \in [1..n -> 0..(n - 1)] :
        /\ \A i \in 1..n : p[i] < i
        /\ \A k \in 1..n : \A m \in (k + 1)..n : ~(p[k] < p[m] /\ p[m] < k) }

ChildrenOf(p, n, i) == SelectSeq([k \in 1..n |-> k], LAMBDA j : p[j] = i)

\* the tree of m nodes with parent map p and node kinds lab
MakeTree(p, m, lab) ==
    [i \in 0..m |->
        IF i = 0 THEN [Tag("[document]") EXCEPT !.kids = ChildrenOf(p, m, 0)]
        ELSE [lab[i] EXCEPT !.kids = ChildrenOf(p, m, i)]]

\* a string has no children
Leaves(p, m, lab) ==
    \A i \in 1..m : lab[i].name = "None" => \A j \in 1..m : p[j] # i

\* ------------------------------------------------- cleaning: write_pdf.py
\* `piece in text' for the fixed needles of the source: a piece of text that
\* has the needle as a substring
HasSubstring(piece, needle) ==
    CASE needle = "changes" -> piece \in {"changes"}
      [] needle = "tm" -> piece \in {"/tm", "/item/tm"}
      [] needle = "ability" -> piece \in {"/ability"}
      [] OTHER -> piece = needle

Contains(text, needle) == \E i \in 1..Len(text) : HasSubstring(text[i], needle)

HasClass(t, x, c) == c \in Range(t[x].cls)

\* h2:-soup-contains(text)
H2Contains(t, x, text) ==
    t[x].name = "h2" /\ Contains(get_text(t, x, FALSE), text)

\* .grid-col.span-md-12.span-lg-4:has(h2:-soup-contains(text))
GridColWith(t, x, text) ==
    /\ HasClass(t, x, "grid-col") /\ HasClass(t, x, "span-md-12")
    /\ HasClass(t, x, "span-lg-4")
    /\ \E h2 \in Range(Descendants(t, x)) : H2Contains(t, h2, text)

\* x has an earlier sibling of class c
AfterSiblingOfClass(t, x, c) ==
    LET p == Parent(t, x) IN
    /\ p # None
    /\ \E i \in 1..Len(t[p].kids) :
          i < Index(t[p].kids, x) /\ IsTag(t, t[p].kids[i]) /\ HasClass(t, t[p].kids[i], c)

InsideClass(t, x, c) == \E a \in Range(Parents(t, x)) : HasClass(t, a, c)

\* ELEMENTS_TO_REMOVE, with "Pokedex" for the accented word of the source
ELEMENTS_TO_REMOVE ==
    << ".sr-only", ".main-header", ".main-menu", ".entity-nav", ".list-nav",
       ".grid-col.span-md-12.span-lg-4:has(h2:-soup-contains(Training))",
       "h2:-soup-contains(Evolution chart)", ".infocard-list-evo",
       "h2:-soup-contains(Pokedex entries)", "footer",
       ".tabset-moves-game ~ *", ".sv-tabs-tab-list",
       ".grid-col.span-md-12.span-lg-4:has(h2:-soup-contains(Type defenses))",
       ".tabset-moves-game .sv-tabs-panel:not(.active):not(.tabset-moves-game-form .sv-tabs-panel)" >>

\* to_remove_list of crawler.py: the same without the last selector
to_remove_list == SubSeq(ELEMENTS_TO_REMOVE, 1, 13)

\* the class a selector of the form .class names
ClassOf(selector) ==
    CASE selector = ".sr-only" -> "sr-only"
      [] selector = ".main-header" -> "main-header"
      [] selector = ".main-menu" -> "main-menu"
      [] selector = ".entity-nav" -> "entity-nav"
      [] selector = ".list-nav" -> "list-nav"
      [] selector = ".infocard-list-evo" -> "infocard-list-evo"
      [] selector = ".sv-tabs-tab-list" -> "sv-tabs-tab-list"

\* whether the element x matches the selector
Matches(t, x, selector) ==
    CASE selector = ".grid-col.span-md-12.span-lg-4:has(h2:-soup-contains(Training))"
            -> GridColWith(t, x, "Training")
      [] selector = ".grid-col.span-md-12.span-lg-4:has(h2:-soup-contains(Type defenses))"
            -> GridColWith(t, x, "Type defenses")
      [] selector = "h2:-soup-contains(Evolution chart)" -> H2Contains(t, x, "Evolution chart")
      [] selector = "h2:-soup-contains(Pokedex entries)" -> H2Contains(t, x, "Pokedex entries")
      [] selector = "footer" -> t[x].name = "footer"
      [] selector = ".tabset-moves-game ~ *" -> AfterSiblingOfClass(t, x, "tabset-moves-game")
      [] selector = ".tabset-moves-game .sv-tabs-panel:not(.active):not(.tabset-moves-game-form .sv-tabs-panel)"
            -> /\ HasClass(t, x, "sv-tabs-panel")
               /\ InsideClass(t, x, "tabset-moves-game")
               /\ ~HasClass(t, x, "active")
               /\ ~InsideClass(t, x, "tabset-moves-game-form")
      [] OTHER -> HasClass(t, x, ClassOf(selector))

\* soup.select(selector)
select(t, selector) ==
    SelectSeq(Nodes(t), LAMBDA x : IsTag(t, x) /\ Matches(t, x, selector))

RECURSIVE DecomposeAll(_, _)
DecomposeAll(t, xs) ==
    IF xs = <<>> THEN t ELSE DecomposeAll(decompose(t, Head(xs)), Tail(xs))

RECURSIVE RemoveSelected(_, _)
RemoveSelected(t, selectors) ==
    IF selectors = <<>> THEN t
    ELSE RemoveSelected(DecomposeAll(t, select(t, Head(selectors))), Tail(selectors))

_remove_unwanted_elements(t) == RemoveSelected(t, ELEMENTS_TO_REMOVE)

general_remove(t) == RemoveSelected(t, to_remove_list)

\* the loop of _remove_specific_headers over the list find_all('th') gave
RECURSIVE RemoveHeadersLoop(_, _, _)
RemoveHeadersLoop(t, ths, labels) ==
    IF ths = <<>> THEN t
    ELSE LET th == Head(ths)
             tr == find_parent(t, th, {"tr"})
         IN RemoveHeadersLoop(
                IF get_text(t, th, TRUE) \in labels /\ tr # None
                THEN decompose(t, tr) ELSE t,
                Tail(ths), labels)

_remove_specific_headers(t) ==
    RemoveHeadersLoop(t, find_all(t, Root, {"th"}), HEADERS_TO_REMOVE)

\* the loop of _remove_non_image_paragraphs over the list find_all('p') gave
RECURSIVE RemoveParagraphsLoop(_, _)
RemoveParagraphsLoop(t, ps) ==
    IF ps = <<>> THEN t
    ELSE LET p == Head(ps) IN
         RemoveParagraphsLoop(
             IF find(t, p, {"img"}) = None THEN decompose(t, p) ELSE t,
             Tail(ps))

\* find('p') where find_all('p') is meant: only the first paragraph is tried
RemoveFirstParagraphOnly(t) ==
    LET p == find(t, Root, {"p"}) IN
    RemoveParagraphsLoop(t, IF p = None THEN <<>> ELSE <<p>>)

_remove_non_image_paragraphs(t) ==
    RemoveParagraphsLoop(t, find_all(t, Root, {"p"}))

\* find_all('img', title=title)
FindImgTitle(t, title) ==
    SelectSeq(find_all(t, Root, {"img"}), LAMBDA x : t[x].title = title)

RECURSIVE ReplaceAll(_, _, _)
\* for img in imgs: img.replace_with(text)
ReplaceAll(t, imgs, text) ==
    IF imgs = <<>> THEN t
    ELSE ReplaceAll(replace_with(t, Head(imgs), NavigableString(<<text>>)),
                    Tail(imgs), text)

icon_mappings == <<"Physical", "Status", "Special">>

RECURSIVE ReplaceIconsLoop(_, _)
ReplaceIconsLoop(t, types) ==
    IF types = <<>> THEN t
    ELSE ReplaceIconsLoop(ReplaceAll(t, FindImgTitle(t, Head(types)), Head(types)),
                          Tail(types))

_replace_move_type_icons(t) == ReplaceIconsLoop(t, icon_mappings)

\* a.replace_with(a.get_text())
ReplaceWithText(t, a) == replace_with(t, a, NavigableString(get_text(t, a, FALSE)))

\* any(term in href.lower() for term in ['tm', 'ability'])
RestrictedHref(href) ==
    \E term \in {"tm", "ability"} : HasSubstring(Lower(href), term)

RECURSIVE CleanHyperlinksLoop(_, _)
CleanHyperlinksLoop(t, as) ==
    IF as = <<>> THEN t
    ELSE LET a == Head(as) IN
         CleanHyperlinksLoop(
             IF "ent-name" \in Range(t[a].cls) \/ "type-icon" \in Range(t[a].cls)
             THEN ReplaceWithText(t, a)
             ELSE IF t[a].href # NoAttr /\ RestrictedHref(t[a].href)
                  THEN ReplaceWithText(t, a)
                  ELSE t,
             Tail(as))

_clean_hyperlinks(t) == CleanHyperlinksLoop(t, find_all(t, Root, {"a"}))

\* the while loop of the two sibling-run removals: next_elem walks the
\* following Tag siblings and each one whose name is permitted is decomposed
RECURSIVE RemoveRun(_, _, _)
RemoveRun(t, next_elem, permitted) ==
    IF next_elem # None /\ t[next_elem].name \in permitted
    THEN RemoveRun(decompose(t, next_elem), find_next_sibling(t, next_elem), permitted)
    ELSE t

RECURSIVE RemoveChangesLoop(_, _, _)
\* lower: whether the heading's text is lowered before the test
RemoveChangesLoop(t, h2s, lower) ==
    IF h2s = <<>> THEN t
    ELSE LET h2 == Head(h2s)
             text == get_text(t, h2, TRUE)
         IN RemoveChangesLoop(
                IF Contains(IF lower THEN LowerAll(text) ELSE text, "changes")
                THEN decompose(RemoveRun(t, find_next_sibling(t, h2), {"ul"}), h2)
                ELSE t,
                Tail(h2s), lower)

_remove_changes_section(t) == RemoveChangesLoop(t, find_all(t, Root, {"h2"}), TRUE)

\* soup.find('div', id='dex-flavor')
FindDexFlavor(t) ==
    LET r == SelectSeq(find_all(t, Root, {"div"}), LAMBDA x : t[x].id = "dex-flavor")
    IN IF r = <<>> THEN None ELSE r[1]

_remove_pokedex_entries(t) ==
    LET dex_entries == FindDexFlavor(t) IN
    IF dex_entries # None
    THEN RemoveRun(t, find_next_sibling(t, dex_entries), {"div", "h3"})
    ELSE t

\* new_heading = new_tag(new_tag); new_heading.extend(heading.contents);
\* heading.replace_with(new_heading)
ShiftHeading(t, heading, new_tag) ==
    LET new_heading == [Tag(new_tag) EXCEPT !.kids = t[heading].kids]
    IN replace_with([t EXCEPT ![heading].kids = <<>>], heading, new_heading)

RECURSIVE ShiftAll(_, _, _)
ShiftAll(t, headings, new_tag) ==
    IF headings = <<>> THEN t
    ELSE ShiftAll(ShiftHeading(t, Head(headings), new_tag), Tail(headings), new_tag)

RECURSIVE ResizeLoop(_, _)
ResizeLoop(t, pairs) ==
    IF pairs = <<>> THEN t
    ELSE ResizeLoop(ShiftAll(t, find_all(t, Root, {Head(pairs)[1]}), Head(pairs)[2]),
                    Tail(pairs))

\* the two shifts in the other order: an h2 is shifted twice
ResizeH2First(t) == ResizeLoop(t, << <<"h2", "h3">>, <<"h3", "h4">> >>)

_resize_headings(t) == ResizeLoop(t, << <<"h3", "h4">>, <<"h2", "h3">> >>)

\* h4.get_text(strip=True).lower().startswith('moves learnt by')
StartsWithMoves(text) == text # <<>> /\ Lower(text[1]) = "moves learnt by"

RECURSIVE FormatMoveListsLoop(_, _)
FormatMoveListsLoop(t, h4s) ==
    IF h4s = <<>> THEN t
    ELSE LET h4 == Head(h4s)
             parent == find_parent(t, h4, {"div", "section"})
         IN FormatMoveListsLoop(
                IF StartsWithMoves(get_text(t, h4, TRUE)) /\ parent # None
                THEN [t EXCEPT ![parent].cls = @ \o <<"two-column">>]
                ELSE t,
                Tail(h4s))

_format_move_lists(t) == FormatMoveListsLoop(t, find_all(t, Root, {"h4"}))

\* --------------------------------------------------- cleaning: crawler.py
remove_headers_from_data(t) ==
    RemoveHeadersLoop(t, find_all(t, Root, {"th"}), headers_to_remove)

remove_paragraphs(t) == RemoveParagraphsLoop(t, find_all(t, Root, {"p"}))

replace_skilltype_icon(t) ==
    LET t1 == ReplaceAll(t, FindImgTitle(t, "Physical"), "Physical")
        t2 == ReplaceAll(t1, FindImgTitle(t1, "Status"), "Status")
    IN ReplaceAll(t2, FindImgTitle(t2, "Special"), "Special")

\* find_all('a', class_=c)
FindLinkClass(t, c) ==
    SelectSeq(find_all(t, Root, {"a"}), LAMBDA x : c \in Range(t[x].cls))

RECURSIVE ReplaceLinks(_, _)
ReplaceLinks(t, as) ==
    IF as = <<>> THEN t ELSE ReplaceLinks(ReplaceWithText(t, Head(as)), Tail(as))

RECURSIVE ReplaceHrefLoop(_, _)
ReplaceHrefLoop(t, as) ==
    IF as = <<>> THEN t
    ELSE LET a == Head(as) IN
         ReplaceHrefLoop(
             IF t[a].href # NoAttr /\ RestrictedHref(t[a].href)
             THEN ReplaceWithText(t, a) ELSE t,
             Tail(as))

replace_hyperlink(t) ==
    LET t1 == ReplaceLinks(t, FindLinkClass(t, "ent-name"))
        t2 == ReplaceLinks(t1, FindLinkClass(t1, "type-icon"))
    IN ReplaceHrefLoop(t2, find_all(t2, Root, {"a"}))

remove_changes(t) == RemoveChangesLoop(t, find_all(t, Root, {"h2"}), FALSE)

\* dex_entries.find_next_sibling() on None: AttributeError
remove_pokedex_entries_raises(t) == FindDexFlavor(t) = None

remove_pokedex_entries(t) ==
    RemoveRun(t, find_next_sibling(t, FindDexFlavor(t)), {"div", "h3"})

resize_title(t) ==
    LET t1 == ShiftAll(t, find_all(t, Root, {"h3"}), "h4")
    IN ShiftAll(t1, find_all(t1, Root, {"h2"}), "h3")

moves_two_column(t) == FormatMoveListsLoop(t, find_all(t, Root, {"h4"}))

\* ------------------------------------------------------------ linearizer
BASE_URL == "https://pokemondb.net"

\* urljoin(base, src): a URL is written <<site, path>>
urljoin(base, src) ==
    IF src = "https://img.pokemondb.net/b.png"
    THEN <<"https://img.pokemondb.net", "/b.png">>
    ELSE <<base, src>>

\* a ReportLab flowable.  node is the element it was made from and group the
\* two-column div it was made for (None outside _process_two_column_div);
\* neither is held by the ReportLab object.
Flowable(kind, node, group) ==
    [kind |-> kind, node |-> node, group |-> group, style |-> "", text |-> <<>>,
     rows |-> <<>>, url |-> <<>>]

Spacer(group) == Flowable("Spacer", None, group)

Paragraph(text, style, node, group) ==
    [Flowable("Paragraph", node, group) EXCEPT !.text = text, !.style = style]

\* Table(data) with the FONTSIZE of its TableStyle
Table(data, fontsize, node, group) ==
    [Flowable("Table", node, group) EXCEPT !.rows = data, !.style = fontsize]

Image(img_url, node) == [Flowable("Image", node, None) EXCEPT !.url = img_url]

RECURSIVE Cells(_, _, _)
\* one Paragraph per cell; bold is the <b> around a header cell's text
Cells(t, cells, bold) ==
    IF cells = <<>> THEN <<>>
    ELSE << [text |-> get_text(t, Head(cells), TRUE), bold |-> bold, node |-> Head(cells)] >>
         \o Cells(t, Tail(cells), bold)

RECURSIVE TableData(_, _)
\* data of HTMLTableToReportLabTable.convert: per tr its th, then its td
TableData(t, trs) ==
    IF trs = <<>> THEN <<>>
    ELSE LET tr == Head(trs)
             row == Cells(t, find_all(t, tr, {"th"}), TRUE)
                    \o Cells(t, find_all(t, tr, {"td"}), FALSE)
         IN (IF row # <<>> THEN <<row>> ELSE <<>>) \o TableData(t, Tail(trs))

\* HTMLTableToReportLabTable.convert: <<>> for None, else <<the Table>>
HTMLTableToReportLabTable_convert(t, table_tag) ==
    LET data == TableData(t, find_all(t, table_tag, {"tr"})) IN
    IF data = <<>> THEN <<>> ELSE << Table(data, "9", table_tag, None) >>

Emit(acc, flowables) == [acc EXCEPT !.elements = @ \o flowables]

\* the same without the try/except: the exception of requests.get leaves
FetchImageUnguarded(t, element, acc, answers) ==
    LET img_tag == find(t, element, {"img"}) IN
    IF img_tag # None /\ t[img_tag].src # NoAttr
    THEN LET img_url == urljoin(BASE_URL, t[img_tag].src)
             called == [acc EXCEPT !.fetches = Append(@, [node |-> element, url |-> img_url])]
         IN IF answers[img_url] = "200"
            THEN Emit(called, << Image(img_url, element) >>)
            ELSE IF answers[img_url] = "raise"
                 THEN [called EXCEPT !.exc = "RequestException"]
                 ELSE called
    ELSE acc

\* the paragraph branch of _process_element: one requests.get, an Image if
\* it answers 200, nothing if it answers otherwise or raises
FetchImage(t, element, acc, answers) ==
    LET img_tag == find(t, element, {"img"}) IN
    IF img_tag # None /\ t[img_tag].src # NoAttr
    THEN LET img_url == urljoin(BASE_URL, t[img_tag].src)
             called == [acc EXCEPT !.fetches = Append(@, [node |-> element, url |-> img_url])]
         IN IF answers[img_url] = "200"
            THEN Emit(called, << Image(img_url, element) >>)
            ELSE called
    ELSE acc

RECURSIVE PlainCells(_, _)
PlainCells(t, cells) ==
    IF cells = <<>> THEN <<>>
    ELSE << [text |-> get_text(t, Head(cells), TRUE), bold |-> FALSE, node |-> Head(cells)] >>
         \o PlainCells(t, Tail(cells))

RECURSIVE PlainTableData(_, _)
\* table_data of _process_two_column_div: per tr its th and td as they come
PlainTableData(t, trs) ==
    IF trs = <<>> THEN <<>>
    ELSE LET row == PlainCells(t, find_all(t, Head(trs), {"th", "td"}))
         IN (IF row # <<>> THEN <<row>> ELSE <<>>) \o PlainTableData(t, Tail(trs))

RECURSIVE TwoColumnTables(_, _, _, _)
TwoColumnTables(t, tables, acc, element) ==
    IF tables = <<>> THEN acc
    ELSE LET table == Head(tables)
             table_data == PlainTableData(t, find_all(t, table, {"tr"}))
         IN TwoColumnTables(t, Tail(tables),
                IF table_data = <<>> THEN acc
                ELSE Emit(acc, << Table(table_data, "8", table, element), Spacer(element) >>),
                element)

_process_two_column_div(t, element, acc) ==
    LET heading == find(t, element, {"h3", "h4"})
        acc1 == IF heading # None
                THEN Emit(acc, << Paragraph(get_text(t, heading, TRUE), "PokemonHeading3",
                                            heading, element) >>)
                ELSE acc
    IN TwoColumnTables(t, find_all(t, element, {"table"}), acc1, element)

HeadingStyle(name) ==
    CASE name = "h2" -> "PokemonHeading2"
      [] name = "h3" -> "PokemonHeading3"
      [] name = "h4" -> "PokemonHeading4"

RECURSIVE _process_element(_, _, _, _), ProcessChildren(_, _, _, _)
\* acc: the elements list, the requests made, and the exception on its way
\* out ("" if none)
_process_element(t, element, acc, answers) ==
    LET name == t[element].name IN
    IF ~IsTag(t, element) THEN acc
    ELSE IF name \in {"h2", "h3", "h4"}
    THEN Emit(acc, << Spacer(None),
                      Paragraph(get_text(t, element, TRUE), HeadingStyle(name), element, None) >>)
    ELSE IF name = "table"
    THEN LET table == HTMLTableToReportLabTable_convert(t, element) IN
         IF table # <<>> THEN Emit(acc, <<Spacer(None)>> \o table \o <<Spacer(None)>>) ELSE acc
    ELSE IF name = "div" /\ "two-column" \in Range(t[element].cls)
    THEN _process_two_column_div(t, element, acc)
    ELSE IF name = "div"
    THEN ProcessChildren(t, t[element].kids, acc, answers)
    ELSE IF name = "p" /\ find(t, element, {"img"}) # None
    THEN FetchImage(t, element, acc, answers)
    ELSE IF t[element].kids # <<>> /\ name \notin {"script", "style"}
    THEN ProcessChildren(t, t[element].kids, acc, answers)
    ELSE acc

\* for child in element.children: an exception ends the loop
ProcessChildren(t, children, acc, answers) ==
    IF children = <<>> \/ acc.exc # "" THEN acc
    ELSE ProcessChildren(t, Tail(children),
                         _process_element(t, Head(children), acc, answers), answers)

\* PokemonHTMLToReportLab.convert
convert(t, answers) ==
    LET title_elem == find(t, Root, {"h1"})
        main_div == find(t, Root, {"main"})
        acc == [elements |-> IF title_elem # None
                             THEN << Paragraph(get_text(t, title_elem, TRUE), "PokemonTitle",
                                               title_elem, None),
                                     Spacer(None) >>
                             ELSE <<>>,
                fetches |-> <<>>, exc |-> ""]
    IN IF main_div # None THEN _process_element(t, main_div, acc, answers) ELSE acc

\* ------------------------------------------------------------------ state
VARIABLES
    soup,       \* the BeautifulSoup tree
    before,     \* the tree as it was when the last operation started
    pc,         \* "input", or the operation that ran last
    done,       \* the operations run on this document so far, in order
    raised,     \* the exception that left the last operation, "" if none
    elements,   \* the flowables convert() returned
    net,        \* what requests.get answers for each image URL
    fetches,    \* the requests.get calls made for images, in order
    file,       \* the input file: whether open() succeeds, and its lines
    urls,       \* the list generate_pdfs iterates over
    fate,       \* for each position of the list, where its document fails
    log,        \* the finished iterations of generate_pdfs, in order
    stdout,     \* what the process has printed, in order
    status      \* the exit status of the process, None while it runs

\* the variables of a batch run
batch == <<file, urls, fate, log, stdout, status>>

vars == <<soup, before, pc, done, raised, elements, net, fetches, batch>>

\* no batch is running: one document is worked on by itself
NoBatch ==
    /\ file = [readable |-> FALSE, lines |-> <<>>]
    /\ urls = <<>>
    /\ fate = <<>>
    /\ log = <<>>
    /\ stdout = <<>>
    /\ status = None

\* the state after BeautifulSoup(...) parsed a document: a tree of at most n
\* nodes, with the image server in one of the given conditions.  If top is
\* "" every node is of one of the given kinds; otherwise the first node is
\* an element named top and the others, of the given kinds, are below it.
ParsedWith(kinds, n, top, nets) ==
    \E m \in 1..n : \E p \in Shapes(m) :
    \E lab \in [(IF top = "" THEN 1 ELSE 2)..m -> kinds] : \E answers \in nets :
        LET labels == [i \in 1..m |-> IF top # "" /\ i = 1 THEN Tag(top) ELSE lab[i]] IN
        /\ top # "" => \A i \in 2..m : p[i] >= 1
        /\ Leaves(p, m, labels)
        /\ soup = MakeTree(p, m, labels)
        /\ before = MakeTree(p, m, labels)
        /\ pc = "input"
        /\ done = <<>>
        /\ raised = ""
        /\ elements = <<>>
        /\ net = answers
        /\ fetches = <<>>
        /\ NoBatch

Parsed(kinds, n) == ParsedWith(kinds, n, "", {<<>>})

\* one call of an operation that returns normally
Return(name, result) ==
    /\ raised = ""
    /\ before' = soup
    /\ soup' = result
    /\ pc' = name
    /\ done' = Append(done, name)
    /\ UNCHANGED <<raised, elements, net, fetches, batch>>

\* one of at most MaxRuns calls of cleaning passes on a document
Pass(name, result) == Len(done) < MaxRuns /\ Return(name, result)

\* the same, for a pass that is run on the parsed document only
Once(name, result) == pc = "input" /\ Return(name, result)

\* one call of a cleaning pass that raises
Raise(name, exception) ==
    /\ raised = ""
    /\ before' = soup
    /\ raised' = exception
    /\ pc' = name
    /\ done' = Append(done, name)
    /\ UNCHANGED <<soup, elements, net, fetches, batch>>

\* ------------------------------------------------ the heading-shift pass
HeadingKinds ==
    { Tag("h2"), Tag("h3"), Tag("h4"), Tag("div"), NavigableString(<<"x">>) }

InitHeadings == Parsed(HeadingKinds, MaxNodes)

ResizeHeadings == Once("_resize_headings", _resize_headings(soup))

ResizeTitle == Once("resize_title", resize_title(soup))

NextHeadings == ResizeHeadings \/ ResizeTitle

SpecHeadings == InitHeadings /\ [][NextHeadings]_vars

\* the document as a sequence in document order: what each node is and
\* where (at which place of that order, 0 for the top) its parent stands.
\* Two trees with the same outline have the same nodes in the same positions
\* among their siblings.
Outline(t) ==
    LET ns == Nodes(t) IN
    [i \in 1..Len(ns) |->
        [name |-> t[ns[i]].name, str |-> t[ns[i]].str,
         parent |-> LET p == Parent(t, ns[i]) IN IF p = Root THEN 0 ELSE Index(ns, p)]]

Count(t, nm) == Len(find_all(t, Root, {nm}))

Shifted(nm) == CASE nm = "h3" -> "h4" [] nm = "h2" -> "h3" [] OTHER -> nm

AfterShift == pc \in {"_resize_headings", "resize_title"}

\* C3: one run of the heading shift turns every h3 into an h4 and every h2
\* into an h3 (never an h2 into an h4): no h2 remains, the h3 are as many as
\* the h2 were, the h4 as many as the h3 and h4 were, and every node keeps
\* its place among its siblings and its children in their order.
C3_HeadingShift ==
    AfterShift =>
        /\ Count(soup, "h2") = 0
        /\ Count(soup, "h3") = Count(before, "h2")
        /\ Count(soup, "h4") = Count(before, "h3") + Count(before, "h4")
        /\ Outline(soup) =
             LET o == Outline(before) IN
             [i \in 1..Len(o) |-> [o[i] EXCEPT !.name = Shifted(@)]]

\* a shift has run on a tree where an h2 with a child sits inside an h3
C3_Witness ==
    /\ AfterShift
    /\ \E x \in Range(find_all(before, Root, {"h2"})) :
          before[x].kids # <<>> /\ before[Parent(before, x)].name = "h3"

\* -------------------------------------------- the paragraph-pruning pass
ParagraphKinds ==
    { Tag("p"), Tag("img"), Tag("div"), NavigableString(<<"x">>) }

InitParagraphs == Parsed(ParagraphKinds, MaxNodes)

RemoveNonImageParagraphs ==
    Once("_remove_non_image_paragraphs", _remove_non_image_paragraphs(soup))

RemoveParagraphs == Once("remove_paragraphs", remove_paragraphs(soup))

NextParagraphs == RemoveNonImageParagraphs \/ RemoveParagraphs

SpecParagraphs == InitParagraphs /\ [][NextParagraphs]_vars

AfterParagraphs == pc \in {"_remove_non_image_paragraphs", "remove_paragraphs"}

\* a paragraph of t with no img below it
ProseParagraph(t, x) == t[x].name = "p" /\ find(t, x, {"img"}) = None

\* x is, or lies inside, a paragraph of t with no img below it
InProse(t, x) ==
    ProseParagraph(t, x) \/ \E a \in Range(Parents(t, x)) : ProseParagraph(t, a)

\* C5: after the paragraph pruning the tree holds exactly the nodes of the
\* input that were not inside (or were not themselves) a paragraph without
\* an img descendant, in their order and under their parents, unchanged: the
\* paragraphs left are exactly the input's paragraphs with an img below them.
C5_ParagraphPruning ==
    AfterParagraphs =>
        /\ raised = ""
        /\ Nodes(soup) = SelectSeq(Nodes(before), LAMBDA x : ~InProse(before, x))
        /\ \A x \in Range(Nodes(soup)) :
              /\ Parent(soup, x) = Parent(before, x)
              /\ [soup[x] EXCEPT !.kids = <<>>] = [before[x] EXCEPT !.kids = <<>>]
        /\ Range(find_all(soup, Root, {"p"})) =
             { x \in Range(find_all(before, Root, {"p"})) : find(before, x, {"img"}) # None }

\* the pruning has run on a tree with a paragraph inside a paragraph, both
\* without an img, and a later paragraph that holds an img
C5_Witness ==
    /\ AfterParagraphs
    /\ \E x, y, z \in Range(find_all(before, Root, {"p"})) :
          /\ ProseParagraph(before, x)
          /\ Parent(before, y) = x
          /\ find(before, z, {"img"}) # None
          /\ Index(Nodes(before), x) < Index(Nodes(before), z)
          /\ InTree(soup, z) /\ ~InTree(soup, x) /\ ~InTree(soup, y)

\* ------------------------------------------ the header-label row removal
HeaderKinds ==
    { Tag("tr"), Tag("th"), Tag("td"), NavigableString(<<"Height">>),
      NavigableString(<<"x">>), NavigableString(<<WS>>) }

\* enough for a header cell that holds a row of its own
NestedHeaderKinds == { Tag("tr"), Tag("th"), NavigableString(<<"Height">>) }

InitHeaders ==
    \/ Parsed(HeaderKinds, MaxNodes)
    \/ Parsed(NestedHeaderKinds, MaxDeepNodes)

RemoveSpecificHeaders ==
    Pass("_remove_specific_headers", _remove_specific_headers(soup))

RemoveHeadersFromData ==
    Pass("remove_headers_from_data", remove_headers_from_data(soup))

NextHeaders == RemoveSpecificHeaders \/ RemoveHeadersFromData

SpecHeaders == InitHeaders /\ [][NextHeaders]_vars

AfterHeaders == pc \in {"_remove_specific_headers", "remove_headers_from_data"}

\* a th of t with the text of a label and a tr around it
LabelledRow(t, th) ==
    get_text(t, th, TRUE) \in HEADERS_TO_REMOVE /\ find_parent(t, th, {"tr"}) # None

\* C7: the header-label row removal is idempotent: after one pass no th with
\* the text of a label has a tr around it, and a second pass removes no node.
C7_HeadersIdempotent ==
    AfterHeaders =>
        /\ \A th \in Range(find_all(soup, Root, {"th"})) : ~LabelledRow(soup, th)
        /\ Len(done) >= 2 => Nodes(soup) = Nodes(before)

\* ----------------------------------------------------- the layout classifier
MoveKinds ==
    { Tag("div"), Tag("section"), Tag("h4"), NavigableString(<<"Moves learnt by">>) }

InitMoves == Parsed(MoveKinds, MaxNodes + 1)

FormatMoveLists == Pass("_format_move_lists", _format_move_lists(soup))

MovesTwoColumn == Pass("moves_two_column", moves_two_column(soup))

NextMoves == FormatMoveLists \/ MovesTwoColumn

SpecMoves == InitMoves /\ [][NextMoves]_vars

\* how often the token occurs in a class list
Occurrences(cls, token) == Cardinality({ i \in 1..Len(cls) : cls[i] = token })

\* C8: the classifier never duplicates the token: whatever runs were made,
\* every container's class list holds 'two-column' at most once.
C8_TokenOnce ==
    \A x \in DOMAIN soup : Occurrences(soup[x].cls, "two-column") <= 1

\* ------------------------------------------------ the sibling-run removals
SiblingKinds ==
    { [Tag("div") EXCEPT !.id = "dex-flavor"], Tag("div"), Tag("h3"), Tag("h2"),
      Tag("ul"), NavigableString(<<"Changes">>), NavigableString(<<"changes">>),
      NavigableString(<<"x">>) }

InitSiblings == Parsed(SiblingKinds, MaxNodes)

RemoveChangesSection ==
    Once("_remove_changes_section", _remove_changes_section(soup))

RemoveChanges == Once("remove_changes", remove_changes(soup))

RemovePokedexEntries ==
    Once("_remove_pokedex_entries", _remove_pokedex_entries(soup))

RemovePokedexEntriesCrawler ==
    /\ pc = "input"
    /\ IF remove_pokedex_entries_raises(soup)
       THEN Raise("remove_pokedex_entries", "AttributeError")
       ELSE Return("remove_pokedex_entries", remove_pokedex_entries(soup))

NextSiblings ==
    \/ RemoveChangesSection
    \/ RemoveChanges
    \/ RemovePokedexEntries
    \/ RemovePokedexEntriesCrawler

SpecSiblings == InitSiblings /\ [][NextSiblings]_vars

\* t has an h2 whose text contains 'changes', in any case
HasChangesAnchor(t) ==
    \E h2 \in Range(find_all(t, Root, {"h2"})) :
        Contains(LowerAll(get_text(t, h2, TRUE)), "changes")

\* C4: with no anchor a sibling-run removal is a no-op and no error: without
\* a div#dex-flavor the flavor-text removal of either file, and without an h2
\* containing 'changes' the changes-section removal of either file, returns
\* normally and leaves the tree as it was.
C4_MissingAnchorNoOp ==
    /\ ( /\ pc \in {"_remove_pokedex_entries", "remove_pokedex_entries"}
         /\ FindDexFlavor(before) = None )
       => (raised = "" /\ soup = before)
    /\ ( /\ pc \in {"_remove_changes_section", "remove_changes"}
         /\ ~HasChangesAnchor(before) )
       => (raised = "" /\ soup = before)

\* ------------------------------------------------- the table converter
TableKinds ==
    { Tag("tr"), Tag("th"), Tag("td"), NavigableString(<<"x">>),
      NavigableString(<<WS>>) }

InitTable == ParsedWith(TableKinds, MaxNodes + 1, "table", {<<>>})

\* self.table_converter.convert(element) on the table of the document
ConvertTable ==
    /\ pc = "input"
    /\ raised = ""
    /\ elements' = HTMLTableToReportLabTable_convert(soup, find(soup, Root, {"table"}))
    /\ before' = soup
    /\ pc' = "table_converter.convert"
    /\ done' = Append(done, "table_converter.convert")
    /\ UNCHANGED <<soup, raised, net, fetches, batch>>

NextTable == ConvertTable

SpecTable == InitTable /\ [][NextTable]_vars

\* the nodes of the cells of a row, or of a whole table's data
RECURSIVE CellNodes(_)
CellNodes(row) ==
    IF row = <<>> THEN <<>> ELSE <<Head(row).node>> \o CellNodes(Tail(row))

RECURSIVE AllCellNodes(_)
AllCellNodes(rows) ==
    IF rows = <<>> THEN <<>> ELSE CellNodes(Head(rows)) \o AllCellNodes(Tail(rows))

Times(s, x) == Cardinality({ i \in 1..Len(s) : s[i] = x })

\* C6: the converter gives one row per tr of the table that has a cell, in
\* order; a row is that tr's th cells in source order, flagged header, then
\* its td cells in source order, not flagged; each cell appears exactly
\* once; a table without cells gives no Table.
C6_TableRows ==
    pc = "table_converter.convert" =>
        LET table_tag == find(soup, Root, {"table"})
            trs == SelectSeq(find_all(soup, table_tag, {"tr"}),
                             LAMBDA tr : find(soup, tr, {"th", "td"}) # None)
            rows == IF elements = <<>> THEN <<>> ELSE elements[1].rows
        IN /\ Len(elements) <= 1
           /\ Len(rows) = Len(trs)
           /\ \A i \in 1..Len(rows) :
                 /\ CellNodes(rows[i]) = find_all(soup, trs[i], {"th"})
                                         \o find_all(soup, trs[i], {"td"})
                 /\ \A j \in 1..Len(rows[i]) :
                       rows[i][j].bold = (soup[rows[i][j].node].name = "th")
           /\ \A c \in Range(find_all(soup, table_tag, {"th", "td"})) :
                 find_parent(soup, c, {"tr"}) # None => Times(AllCellNodes(rows), c) = 1

\* ------------------------------------------- classification, then convert
LinearKinds ==
    { Tag("div"), Tag("section"), Tag("h1"), Tag("h2"), Tag("h4"),
      NavigableString(<<"Moves learnt by">>) }

\* enough for a two-column div with a heading and a table that has a cell
GroupKinds ==
    { [Tag("div") EXCEPT !.cls = <<"two-column">>], Tag("h4"),
      Tag("table"), Tag("tr"), Tag("td") }

InitLinearize ==
    \/ ParsedWith(LinearKinds, MaxNodes + 1, "main", {<<>>})
    \/ ParsedWith(GroupKinds, MaxDeepNodes, "main", {<<>>})

\* cleaner.clean() ends with the classification
Classify == Once("_format_move_lists", _format_move_lists(soup))

\* converter.convert()
Convert ==
    /\ pc = "_format_move_lists"
    /\ raised = ""
    /\ LET r == convert(soup, net) IN
          /\ elements' = r.elements
          /\ fetches' = r.fetches
          /\ raised' = r.exc
    /\ before' = soup
    /\ pc' = "convert"
    /\ done' = Append(done, "convert")
    /\ UNCHANGED <<soup, net, batch>>

NextLinearize == Classify \/ Convert

SpecLinearize == InitLinearize /\ [][NextLinearize]_vars

\* the place of a node in document order
DocPos(t, x) == Index(Nodes(t), x)

\* C1: the blocks convert() produces are in the document order of the nodes
\* they come from, the Title from the first h1 and the heading and tables of
\* a two-column container included.
C1_DocumentOrder ==
    pc = "convert" =>
        \A i, j \in 1..Len(elements) :
            (i < j /\ elements[i].node # None /\ elements[j].node # None)
                => DocPos(soup, elements[i].node) <= DocPos(soup, elements[j].node)

\* _process_element passes through a: it emits nothing for it and goes on
\* to its children
Transparent(t, a) ==
    /\ t[a].name \notin {"h2", "h3", "h4", "table", "script", "style"}
    /\ ~(t[a].name = "div" /\ "two-column" \in Range(t[a].cls))
    /\ ~(t[a].name = "p" /\ find(t, a, {"img"}) # None)

\* the linearizer reaches x from the main root
Reached(t, x) ==
    LET main_div == find(t, Root, {"main"}) IN
    /\ main_div # None
    /\ main_div \in Range(Parents(t, x))
    /\ \A a \in Range(Parents(t, x)) :
          (a = main_div \/ main_div \in Range(Parents(t, a))) => Transparent(t, a)

\* _format_move_lists has marked x: x is the nearest div or section around
\* an h4 that starts with 'moves learnt by'
Marked(t, x) ==
    /\ "two-column" \in Range(t[x].cls)
    /\ \E h4 \in Range(find_all(t, x, {"h4"})) :
          /\ StartsWithMoves(get_text(t, h4, TRUE))
          /\ find_parent(t, h4, {"div", "section"}) = x

\* the flowables made from node x
From(x) == SelectSeq(elements, LAMBDA f : f.node = x)

\* C2: every marked container the linearizer reaches is emitted as one
\* two-column group: its first h3/h4 descendant is the group heading, each
\* descendant table with a non-empty row is one grid entry, and none of them
\* is emitted as a standalone Heading or Table.
C2_TwoColumnGroup ==
    pc = "convert" =>
        \A x \in Range(Nodes(soup)) :
            (Marked(soup, x) /\ Reached(soup, x)) =>
                LET heading == find(soup, x, {"h3", "h4"}) IN
                /\ Len(From(heading)) = 1
                /\ From(heading)[1].group = x
                /\ \A table \in Range(find_all(soup, x, {"table"})) :
                      HTMLTableToReportLabTable_convert(soup, table) # <<>> =>
                          /\ Len(From(table)) = 1
                          /\ From(table)[1].group = x

\* ---------------------------------------- convert with images to retrieve
ImageKinds ==
    { Tag("p"), Tag("h2"), Tag("img"), [Tag("img") EXCEPT !.src = "/a.png"],
      [Tag("img") EXCEPT !.src = "https://img.pokemondb.net/b.png"] }

ImageURLs == { urljoin(BASE_URL, "/a.png"), urljoin(BASE_URL, "https://img.pokemondb.net/b.png") }

\* what requests.get(img_url) does: a response with the status 200 or 404,
\* or an exception
Answers == { "200", "404", "raise" }

InitImages == ParsedWith(ImageKinds, MaxNodes, "main", [ImageURLs -> Answers])

NextImages == Classify \/ Convert

SpecImages == InitImages /\ [][NextImages]_vars

Failed(f) == net[f.url] # "200"

\* C10: when the retrieval of a paragraph's image fails (requests.get raises
\* or answers another status than 200) the linearizer has asked for it
\* exactly once, emits nothing for the paragraph, lets no exception out, and
\* emits every other block as it does when every retrieval succeeds.
C10_ImageFailure ==
    pc = "convert" =>
        /\ raised = ""
        /\ \A i \in 1..Len(fetches) :
              Failed(fetches[i]) =>
                  /\ \A j \in 1..Len(fetches) : fetches[j].node = fetches[i].node => j = i
                  /\ From(fetches[i].node) = <<>>
        /\ elements =
             SelectSeq(convert(soup, [u \in ImageURLs |-> "200"]).elements,
                       LAMBDA f : f.kind = "Image" => ~Failed(f))

\* convert has met a paragraph whose image request raised, and has gone on
\* to emit a block for a later node
C10_Witness ==
    /\ pc = "convert"
    /\ \E i \in 1..Len(fetches) : \E j \in 1..Len(elements) :
          /\ net[fetches[i].url] = "raise"
          /\ elements[j].node # None
          /\ DocPos(soup, fetches[i].node) < DocPos(soup, elements[j].node)

\* ------------------------------------------- one document: clean, convert
\* a clean() that keeps the phases apart: every pruning pass first
CleanByPhase ==
    << "_remove_unwanted_elements", "_remove_specific_headers",
       "_remove_non_image_paragraphs", "_remove_changes_section",
       "_remove_pokedex_entries", "_replace_move_type_icons", "_clean_hyperlinks",
       "_resize_headings", "_format_move_lists" >>

\* PokemonHTMLCleaner.clean: the passes in the order of their calls
clean ==
    << "_remove_unwanted_elements", "_remove_specific_headers",
       "_remove_non_image_paragraphs", "_replace_move_type_icons",
       "_clean_hyperlinks", "_remove_changes_section", "_remove_pokedex_entries",
       "_resize_headings", "_format_move_lists" >>

\* what has run when the pass is called
Prev(name) == IF Index(clean, name) = 1 THEN "input" ELSE clean[Index(clean, name) - 1]

\* one call of clean(), made when the call before it has returned
Step(name, result) == pc = Prev(name) /\ Return(name, result)

DocumentKinds ==
    { Tag("h2"), Tag("ul"), Tag("footer"), [Tag("a") EXCEPT !.cls = <<"ent-name">>],
      NavigableString(<<"Changes">>) }

Init == ParsedWith(DocumentKinds, MaxNodes, "main", {<<>>})

StepRemoveUnwantedElements ==
    Step("_remove_unwanted_elements", _remove_unwanted_elements(soup))

StepRemoveSpecificHeaders ==
    Step("_remove_specific_headers", _remove_specific_headers(soup))

StepRemoveNonImageParagraphs ==
    Step("_remove_non_image_paragraphs", _remove_non_image_paragraphs(soup))

StepReplaceMoveTypeIcons ==
    Step("_replace_move_type_icons", _replace_move_type_icons(soup))

StepCleanHyperlinks == Step("_clean_hyperlinks", _clean_hyperlinks(soup))

StepRemoveChangesSection ==
    Step("_remove_changes_section", _remove_changes_section(soup))

StepRemovePokedexEntries ==
    Step("_remove_pokedex_entries", _remove_pokedex_entries(soup))

StepResizeHeadings == Step("_resize_headings", _resize_headings(soup))

StepFormatMoveLists == Step("_format_move_lists", _format_move_lists(soup))

Next ==
    \/ StepRemoveUnwantedElements
    \/ StepRemoveSpecificHeaders
    \/ StepRemoveNonImageParagraphs
    \/ StepReplaceMoveTypeIcons
    \/ StepCleanHyperlinks
    \/ StepRemoveChangesSection
    \/ StepRemovePokedexEntries
    \/ StepResizeHeadings
    \/ StepFormatMoveLists
    \/ Convert

Spec == Init /\ [][Next]_vars

\* the phase of section 5 an operation belongs to: 1 pruning, 2 rewrite,
\* 3 layout classification, 4 linearization
Phase(name) ==
    CASE name \in {"_remove_unwanted_elements", "_remove_specific_headers",
                   "_remove_non_image_paragraphs", "_remove_changes_section",
                   "_remove_pokedex_entries"} -> 1
      [] name \in {"_replace_move_type_icons", "_clean_hyperlinks", "_resize_headings"} -> 2
      [] name = "_format_move_lists" -> 3
      [] name = "convert" -> 4

MaxLines == 2        \* lines of the input file

Mew == <<"https://pokemondb.net/pokedex/mew">>
Abra == <<"https://pokemondb.net/pokedex/abra">>

\* the lines a file may hold: a line is a string of pieces, "\n" included
Lines == { <<WS>>, Mew \o <<WS>>, Abra \o <<WS>>, <<WS>> \o Abra \o <<WS>> }

RECURSIVE ReadUrls(_)
\* [line.strip() for line in f if line.strip()]
ReadUrls(lines) ==
    IF lines = <<>> THEN <<>>
    ELSE (IF Strip(Head(lines)) # <<>> THEN <<Strip(Head(lines))>> ELSE <<>>)
         \o ReadUrls(Tail(lines))

\* url.split('/')[-1]
PokemonName(url) ==
    CASE url = Mew -> "mew"
      [] url = Abra -> "abra"

\* BeautifulSoup(response.text, 'html.parser') of the page the site serves
Page(url) ==
    CASE url = Mew ->
           MakeTree(<<0, 1, 2, 1, 4, 1>>, 6,
                    << Tag("main"), Tag("h1"), NavigableString(<<"Mew">>),
                       Tag("h2"), NavigableString(<<"Changes">>), Tag("ul") >>)
      [] url = Abra ->
           MakeTree(<<0, 1, 2, 1, 4>>, 5,
                    << Tag("main"), Tag("h1"), NavigableString(<<"Abra">>),
                       Tag("h2"), NavigableString(<<"Stats">>) >>)

\* where _generate_single_pdf raises for a document, "ok" if nowhere
Fates == {"ok", "requests.get", "raise_for_status", "clean", "convert", "build"}

\* one cleaning pass, by its name
RunPass(name, t) ==
    CASE name = "_remove_unwanted_elements" -> _remove_unwanted_elements(t)
      [] name = "_remove_specific_headers" -> _remove_specific_headers(t)
      [] name = "_remove_non_image_paragraphs" -> _remove_non_image_paragraphs(t)
      [] name = "_replace_move_type_icons" -> _replace_move_type_icons(t)
      [] name = "_clean_hyperlinks" -> _clean_hyperlinks(t)
      [] name = "_remove_changes_section" -> _remove_changes_section(t)
      [] name = "_remove_pokedex_entries" -> _remove_pokedex_entries(t)
      [] name = "_resize_headings" -> _resize_headings(t)
      [] name = "_format_move_lists" -> _format_move_lists(t)

RECURSIVE RunAll(_, _)
\* cleaner.clean(): every pass, in order
RunAll(names, t) ==
    IF names = <<>> THEN t
    ELSE LET result == RunPass(Head(names), t) IN
         \* a pass has returned before the next one is called
         IF Root \in DOMAIN result THEN RunAll(Tail(names), result) ELSE result

\* the process starts: main.main is entered; the input file is unreadable,
\* or holds some lines, and each document of the batch has its fate
InitMain ==
    \E readable \in BOOLEAN : \E n \in 0..MaxLines : \E lines \in [1..n -> Lines] :
    \E fates \in [1..Len(ReadUrls(lines)) -> Fates] :
        /\ readable \/ (n = 0)
        /\ file = [readable |-> readable, lines |-> lines]
        /\ fate = fates
        /\ urls = <<>>
        /\ log = <<>>
        /\ stdout = <<>>
        /\ status = None
        /\ soup = MakeTree(<<>>, 0, <<>>)
        /\ before = MakeTree(<<>>, 0, <<>>)
        /\ pc = "main.main"
        /\ done = <<>>
        /\ raised = ""
        /\ elements = <<>>
        /\ net = <<>>
        /\ fetches = <<>>

\* main.main up to the call of write_pdf.main
MainStart ==
    /\ pc = "main.main"
    /\ stdout' = stdout \o << <<"Starting Pokemon Crawler...", "">>,
                              <<"Step 2: Generating PDF files for Pokemon...", "">> >>
    /\ pc' = "write_pdf.main"
    /\ UNCHANGED <<soup, before, done, raised, elements, net, fetches,
                   file, urls, fate, log, status>>

\* write_pdf.main: open and read the input file; its handler catches what
\* open() raises, prints, and write_pdf.main returns normally
ReadInputFile ==
    /\ pc = "write_pdf.main"
    /\ IF file.readable
       THEN /\ urls' = ReadUrls(file.lines)
            /\ pc' = "generate_pdfs"
            /\ UNCHANGED stdout
       ELSE /\ stdout' = Append(stdout, <<"An error occurred:", "FileNotFoundError">>)
            /\ pc' = "write_pdf.main returned"
            /\ UNCHANGED urls
    /\ UNCHANGED <<soup, before, done, raised, elements, net, fetches,
                   file, fate, log, status>>

\* an iteration of generate_pdfs whose exception leaves the loop
ExceptPropagates(entries, e) ==
    /\ log' = [entries EXCEPT ![Len(entries)].outcome = e]
    /\ stdout' = Append(stdout, <<"An error occurred:", e>>)
    /\ pc' = "write_pdf.main returned"

\* except Exception as e: print(...), and the loop goes on
Except(entries, e) ==
    /\ log' = [entries EXCEPT ![Len(entries)].outcome = e]
    /\ stdout' = Append(stdout, <<"An error occurred processing", e>>)
    /\ pc' = "generate_pdfs"

\* for url in urls: requests.get(url); raise_for_status(); BeautifulSoup(...)
FetchDocument ==
    /\ pc = "generate_pdfs"
    /\ Len(log) < Len(urls)
    /\ LET i == Len(log) + 1
           entries == Append(log, [url |-> urls[i], outcome |-> "running",
                                   elements |-> <<>>])
       IN IF fate[i] \in {"requests.get", "raise_for_status"}
          THEN Except(entries, fate[i]) /\ UNCHANGED soup
          ELSE /\ soup' = Page(urls[i])
               /\ log' = entries
               /\ pc' = "parsed"
               /\ UNCHANGED stdout
    /\ UNCHANGED <<before, done, raised, elements, net, fetches,
                   file, urls, fate, status>>

\* cleaner.clean()
CleanDocument ==
    /\ pc = "parsed"
    /\ IF fate[Len(log)] = "clean"
       THEN Except(log, "clean") /\ UNCHANGED soup
       ELSE /\ soup' = RunAll(clean, soup)
            /\ pc' = "cleaned"
            /\ UNCHANGED <<log, stdout>>
    /\ UNCHANGED <<before, done, raised, elements, net, fetches,
                   file, urls, fate, status>>

\* elements = converter.convert()
ConvertDocument ==
    /\ pc = "cleaned"
    /\ IF fate[Len(log)] = "convert"
       THEN Except(log, "convert") /\ UNCHANGED elements
       ELSE /\ elements' = convert(soup, net).elements
            /\ pc' = "converted"
            /\ UNCHANGED <<log, stdout>>
    /\ UNCHANGED <<soup, before, done, raised, net, fetches,
                   file, urls, fate, status>>

\* doc.build(elements); print("Generated PDF for ...")
BuildDocument ==
    /\ pc = "converted"
    /\ IF fate[Len(log)] = "build"
       THEN Except(log, "build")
       ELSE /\ log' = [log EXCEPT ![Len(log)] =
                          [@ EXCEPT !.outcome = "generated", !.elements = elements]]
            /\ stdout' = Append(stdout, <<"Generated PDF for",
                                          PokemonName(urls[Len(log)])>>)
            /\ pc' = "generate_pdfs"
    /\ UNCHANGED <<soup, before, done, raised, elements, net, fetches,
                   file, urls, fate, status>>

\* the loop of generate_pdfs is over; write_pdf.main reports and returns
GeneratePdfsReturn ==
    /\ pc = "generate_pdfs"
    /\ Len(log) = Len(urls)
    /\ stdout' = Append(stdout, <<"PDF files are available in", "pokemon_pdfs">>)
    /\ pc' = "write_pdf.main returned"
    /\ UNCHANGED <<soup, before, done, raised, elements, net, fetches,
                   file, urls, fate, log, status>>

\* main.main after write_pdf.main returned: count, report; the process ends.
\* Its handler (print, sys.exit(1)) is entered only by an exception that
\* leaves write_pdf.main or the report, and write_pdf.main lets none out.
MainReport ==
    /\ pc = "write_pdf.main returned"
    /\ stdout' = stdout \o << <<"Completed! Generated", "">>,
                              <<"PDF files are available in", "pokemon_pdfs">> >>
    /\ status' = 0
    /\ pc' = "exit"
    /\ UNCHANGED <<soup, before, done, raised, elements, net, fetches,
                   file, urls, fate, log>>

NextMain ==
    \/ MainStart
    \/ ReadInputFile
    \/ FetchDocument
    \/ CleanDocument
    \/ ConvertDocument
    \/ BuildDocument
    \/ GeneratePdfsReturn
    \/ MainReport

SpecMain == InitMain /\ [][NextMain]_vars

\* the iterations of generate_pdfs that are over
Finished == { i \in 1..Len(log) : log[i].outcome # "running" }

\* generate_pdfs has returned, or was left by an exception
BatchOver == file.readable /\ pc \in {"write_pdf.main returned", "exit"}

\* C11: one document's failure does not abort the batch.  The iterations of
\* generate_pdfs take the URLs of the list one by one in list order, each
\* once, and when generate_pdfs is over every URL has been attempted; the
\* outcome of an iteration is its own document's (generated, or the place
\* where it failed), and a generated document is the one built from its own
\* page, whatever happened to the URLs before it.
C11_BatchContinues ==
    /\ Len(log) <= Len(urls)
    /\ \A i \in 1..Len(log) : log[i].url = urls[i]
    /\ BatchOver => (Len(log) = Len(urls) /\ Finished = 1..Len(urls))
    /\ \A i \in Finished :
          /\ log[i].outcome = (IF fate[i] = "ok" THEN "generated" ELSE fate[i])
          /\ log[i].outcome = "generated" =>
                log[i].elements = convert(RunAll(clean, Page(log[i].url)), <<>>).elements

\* a batch is over in which the first document failed and the second one,
\* of another page, was generated
C11_Witness ==
    /\ BatchOver
    /\ Len(urls) = 2
    /\ urls[1] # urls[2]
    /\ log[1].outcome \in Fates \ {"ok"}
    /\ log[2].outcome = "generated"
    /\ log[2].elements # <<>>


\* the success report of main.main has been printed
Completed == \E i \in 1..Len(stdout) : stdout[i][1] = "Completed! Generated"

\* C14: when the PDF generation step fails before any document is processed
\* (the input file cannot be opened), main.main never prints its success
\* report and the process ends with exit status 1.
C14_FailureExitsOne ==
    ~file.readable =>
        /\ ~Completed
        /\ pc = "exit" => status = 1

\* ------------------------------------------------ the content substitution
\* the test of _clean_hyperlinks on a link
LinkHit(t, a) ==
    \/ "ent-name" \in Range(t[a].cls)
    \/ "type-icon" \in Range(t[a].cls)
    \/ t[a].href # NoAttr /\ RestrictedHref(t[a].href)

IconHit(t, img) == t[img].title \in Range(icon_mappings)

\* the test a loop makes on an element before it replaces it
Hit(test, t, x) ==
    CASE test = "icon" -> IconHit(t, x)
      [] test = "link" -> LinkHit(t, x)
      [] test = "href" -> t[x].href # NoAttr /\ RestrictedHref(t[x].href)
      [] test = "all" -> TRUE

RECURSIVE ReplaceRaises(_, _, _)
\* replace_with raises ValueError on an element that has no parent: whether
\* a loop `for x in xs: if test(x): x.replace_with(...)' raises
ReplaceRaises(t, xs, test) ==
    IF xs = <<>> THEN FALSE
    ELSE LET x == Head(xs) IN
         \/ Hit(test, t, x) /\ Parent(t, x) = None
         \/ ReplaceRaises(IF Hit(test, t, x) THEN ReplaceWithText(t, x) ELSE t,
                          Tail(xs), test)

IconKinds ==
    { [Tag("img") EXCEPT !.title = "Physical"], [Tag("img") EXCEPT !.title = "Status"],
      [Tag("img") EXCEPT !.title = "Special"], [Tag("img") EXCEPT !.title = "Grass"],
      [Tag("a") EXCEPT !.href = "/pokedex"], NavigableString(<<"x">>) }

LinkKinds ==
    { [Tag("a") EXCEPT !.cls = <<"ent-name">>], [Tag("a") EXCEPT !.cls = <<"type-icon">>],
      [Tag("a") EXCEPT !.href = "/TM"], [Tag("a") EXCEPT !.href = "/ability"],
      [Tag("a") EXCEPT !.href = "/pokedex"], [Tag("img") EXCEPT !.title = "Grass"],
      NavigableString(<<"x">>) }

\* a parsed document; an img is a void element and has no children
InitSubstitution ==
    /\ Parsed(IconKinds, MaxNodes - 1) \/ Parsed(LinkKinds, MaxNodes - 1)
    /\ \A x \in DOMAIN soup : soup[x].name = "img" => soup[x].kids = <<>>

ReplaceMoveTypeIcons ==
    /\ pc = "input"
    /\ IF ReplaceRaises(soup, find_all(soup, Root, {"img"}), "icon")
       THEN Raise("_replace_move_type_icons", "ValueError")
       ELSE Return("_replace_move_type_icons", _replace_move_type_icons(soup))

ReplaceSkilltypeIcon ==
    /\ pc = "input"
    /\ IF ReplaceRaises(soup, find_all(soup, Root, {"img"}), "icon")
       THEN Raise("replace_skilltype_icon", "ValueError")
       ELSE Return("replace_skilltype_icon", replace_skilltype_icon(soup))

CleanHyperlinks ==
    /\ pc = "input"
    /\ IF ReplaceRaises(soup, find_all(soup, Root, {"a"}), "link")
       THEN Raise("_clean_hyperlinks", "ValueError")
       ELSE Return("_clean_hyperlinks", _clean_hyperlinks(soup))

\* the three loops of replace_hyperlink, each over its own find_all
ReplaceHyperlink ==
    /\ pc = "input"
    /\ LET t1 == ReplaceLinks(soup, FindLinkClass(soup, "ent-name"))
           t2 == ReplaceLinks(t1, FindLinkClass(t1, "type-icon"))
       IN IF \/ ReplaceRaises(soup, FindLinkClass(soup, "ent-name"), "all")
             \/ ReplaceRaises(t1, FindLinkClass(t1, "type-icon"), "all")
             \/ ReplaceRaises(t2, find_all(t2, Root, {"a"}), "href")
          THEN Raise("replace_hyperlink", "ValueError")
          ELSE Return("replace_hyperlink", replace_hyperlink(soup))

NextSubstitution ==
    \/ ReplaceMoveTypeIcons
    \/ ReplaceSkilltypeIcon
    \/ CleanHyperlinks
    \/ ReplaceHyperlink

SpecSubstitution == InitSubstitution /\ [][NextSubstitution]_vars

AfterIcons == pc \in {"_replace_move_type_icons", "replace_skilltype_icon"}
AfterLinks == pc \in {"_clean_hyperlinks", "replace_hyperlink"}

\* where x was among its siblings before the pass, a new text node holding
\* text is now, and it is in the document
ReplacedBy(x, text) ==
    LET p == Parent(before, x)
        i == Index(before[p].kids, x)
    IN /\ Len(soup[p].kids) = Len(before[p].kids)
       /\ soup[p].kids[i] \notin DOMAIN before
       /\ soup[soup[p].kids[i]] = NavigableString(text)
       /\ InTree(soup, soup[p].kids[i])

\* x is in the document where it was before the pass, the same element
Kept(x) ==
    LET p == Parent(before, x)
        i == Index(before[p].kids, x)
    IN /\ InTree(soup, x)
       /\ Len(soup[p].kids) = Len(before[p].kids)
       /\ soup[p].kids[i] = x
       /\ [soup[x] EXCEPT !.kids = <<>>] = [before[x] EXCEPT !.kids = <<>>]

Imgs == Range(find_all(before, Root, {"img"}))
Links == Range(find_all(before, Root, {"a"}))

\* x lay inside a link that the pass replaces
InsideHit(x) == \E a \in Range(Parents(before, x)) : a \in Links /\ LinkHit(before, a)

\* C12 as stated: the substitution passes return normally; every img titled
\* 'Physical', 'Status' or 'Special' is replaced in place by a text node
\* holding the label, every link of class 'ent-name' or 'type-icon' or with
\* 'tm' or 'ability' in its lowered href is replaced in place by a text node
\* holding its text, and every other img and link stays in place unchanged.
C12_ReplaceInPlace ==
    /\ (AfterIcons \/ AfterLinks) => raised = ""
    /\ AfterIcons =>
          \A x \in Imgs : IF IconHit(before, x)
                          THEN ReplacedBy(x, <<before[x].title>>) ELSE Kept(x)
    /\ AfterLinks =>
          /\ \A x \in Links : IF LinkHit(before, x)
                              THEN ReplacedBy(x, get_text(before, x, FALSE)) ELSE Kept(x)
          /\ \A x \in Imgs : ~IconHit(before, x) => Kept(x)

\* C12, amended: the same for every img and link that is not inside a
\* replaced link; what is inside a replaced link leaves the document with
\* it, and its text is part of the text that replaces the link.
C12_ReplaceOutermost ==
    /\ (AfterIcons \/ AfterLinks) => raised = ""
    /\ AfterIcons =>
          \A x \in Imgs : IF IconHit(before, x)
                          THEN ReplacedBy(x, <<before[x].title>>) ELSE Kept(x)
    /\ AfterLinks =>
          /\ \A x \in Links :
                IF InsideHit(x) THEN ~InTree(soup, x)
                ELSE IF LinkHit(before, x)
                     THEN ReplacedBy(x, get_text(before, x, FALSE)) ELSE Kept(x)
          /\ \A x \in Imgs :
                IF InsideHit(x) THEN ~InTree(soup, x)
                ELSE ~IconHit(before, x) => Kept(x)

\* a link pass has replaced a link that had a sibling after it and a link
\* inside it
C12_Witness ==
    /\ AfterLinks
    /\ \E x \in Links :
          /\ LinkHit(before, x)
          /\ ~InsideHit(x)
          /\ Index(before[Parent(before, x)].kids, x) < Len(before[Parent(before, x)].kids)
          /\ \E y \in Links : x \in Range(Parents(before, y))

\* --------------------------------------------- the runs of sibling removal
RECURSIVE RunOf(_, _, _)
\* the maximal run of consecutive element siblings that follow x and whose
\* tags are permitted
RunOf(t, x, permitted) ==
    LET n == find_next_sibling(t, x) IN
    IF n # None /\ t[n].name \in permitted THEN {n} \cup RunOf(t, n, permitted) ELSE {}

\* the h2 elements whose text contains 'changes', in any letter case
ChangesAnchors(t) ==
    { h2 \in Range(find_all(t, Root, {"h2"})) :
         Contains(LowerAll(get_text(t, h2, TRUE)), "changes") }

\* the nodes a removal of the given elements takes out of the document
Gone(t, xs) == xs \cup UNION { Range(Descendants(t, x)) : x \in xs }

\* the document is what it was before the pass, less the given nodes
Remains(gone) ==
    /\ Range(Nodes(soup)) = Range(Nodes(before)) \ gone
    /\ \A x \in (Range(Nodes(before)) \ gone) \cup {Root} :
          soup[x] = [before[x] EXCEPT !.kids = SelectSeq(@, LAMBDA k : k \notin gone)]

\* C13: a sibling-run removal removes exactly the maximal run of consecutive
\* following element siblings of its anchor whose tags are permitted.  The
\* changes-section removal of either file removes every h2 whose text
\* contains 'changes' and the run of ul siblings that follows it; the
\* flavor-text removal of either file, given a div#dex-flavor, keeps it and
\* removes the run of div and h3 siblings that follows it.  Every other
\* node, the first sibling that is not permitted and all after it, and the
\* siblings before the anchor, stay in the tree as they were.
C13_ExactRun ==
    /\ pc \in {"_remove_changes_section", "remove_changes"} =>
          /\ raised = ""
          /\ Remains(Gone(before, UNION { {h2} \cup RunOf(before, h2, {"ul"}) :
                                            h2 \in ChangesAnchors(before) }))
    /\ ( /\ pc \in {"_remove_pokedex_entries", "remove_pokedex_entries"}
         /\ FindDexFlavor(before) # None ) =>
          /\ raised = ""
          /\ Remains(Gone(before, RunOf(before, FindDexFlavor(before), {"div", "h3"})))

====
